---------------------------- MODULE Spec2Model ----------------------------
(***************************************************************************)
(* Model of scripts/migrate_session_paths.py: the project-path inference   *)
(* and backfill engine for zagent context-*.json session records.          *)
(*                                                                         *)
(* Text is modelled as a sequence of one-character strings, so that the    *)
(* marker search, the path-token scan, the trimming and the substring      *)
(* tests of the script are computed character by character.                *)
(***************************************************************************)
EXTENDS Integers, Sequences, FiniteSets, TLC

(***************************************************************************)
(* Character classes and generic string primitives (Python str methods).   *)
(***************************************************************************)
Whitespace == {" ", "\n", "\t"}

LineBreaks == {"\n"}

SetMin(S) == CHOOSE x \in S : \A y \in S : x <= y

SetMax(S) == CHOOSE x \in S : \A y \in S : x >= y

\* s[i:] with a 0-based Python offset i
From(s, i) == SubSeq(s, i + 1, Len(s))

MatchAt(s, p, i) ==
    /\ i + Len(p) - 1 <= Len(s)
    /\ \A k \in 1..Len(p) : s[i + k - 1] = p[k]

\* str.startswith
StartsWith(s, p) == MatchAt(s, p, 1)

\* `p in s`
Contains(s, p) == \E i \in 1..(Len(s) - Len(p) + 1) : MatchAt(s, p, i)

\* str.find: 0-based offset of the first occurrence, -1 when there is none
Find(s, p) ==
    LET hits == {i \in 1..(Len(s) - Len(p) + 1) : MatchAt(s, p, i)}
    IN  IF hits = {} THEN -1 ELSE SetMin(hits) - 1

\* str.strip()
Strip(s) ==
    LET keep == {i \in 1..Len(s) : s[i] \notin Whitespace}
    IN  IF keep = {} THEN <<>> ELSE SubSeq(s, SetMin(keep), SetMax(keep))

\* str.rstrip(chars)
RStripChars(s, chars) ==
    LET keep == {i \in 1..Len(s) : s[i] \notin chars}
    IN  IF keep = {} THEN <<>> ELSE SubSeq(s, 1, SetMax(keep))

\* str.splitlines()[0] of a non-empty string
FirstLine(s) ==
    LET brk == {i \in 1..Len(s) : s[i] \in LineBreaks}
    IN  IF brk = {} THEN s ELSE SubSeq(s, 1, SetMin(brk) - 1)

\* "\n".join(parts)
RECURSIVE JoinLines(_)
JoinLines(parts) ==
    IF Len(parts) = 0 THEN <<>>
    ELSE IF Len(parts) = 1 THEN parts[1]
    ELSE parts[1] \o <<"\n">> \o JoinLines(Tail(parts))


(***************************************************************************)
(* Literals of the script and of the modelled environment.                 *)
(***************************************************************************)
MARKER_ACTIVE ==
    <<"A","c","t","i","v","e"," ","p","r","o","j","e","c","t"," ","r","o","o","t",":">>

MARKER_SET == <<"P","r","o","j","e","c","t"," ","s","e","t"," ","t","o">>

PROJECT_ROOT_MARKERS == <<MARKER_ACTIVE, MARKER_SET>>

\* re: [^\s"'<>]  (a token character)
TokenDelims == Whitespace \cup {"\"", "'", "<", ">"}

\* c.rstrip(".,;:)]}")
TrailingPunct == {".", ",", ";", ":", ")", "]", "}"}

HomeNeedle == <<"/","h","o","m","e","/">>

DIR_BONUS == 10

MARKER_BONUS == 50

HOME_BONUS == 2

LENGTH_PRIOR == 20

LENGTH_STEP == 8

MIN_SCORE == 10

(***************************************************************************)
(* State.                                                                  *)
(*   dirs      the directories that exist (canonical absolute paths)       *)
(*   disk      the config directory: file name -> file                     *)
(*   argv      the command line of the running invocation                  *)
(*   pc        "idle" | "loop" (inside main's for loop)                    *)
(*   files     main's sorted glob result                                   *)
(*   pos       index of the next entry of files                            *)
(*   scanned, updated, skipped, failed   main's counters                   *)
(*   status    disposition returned for each file in this invocation       *)
(*   stdout    lines printed by this invocation                            *)
(*   before    the config directory as this invocation found it            *)
(*   prev      report of the previous invocation, if any                   *)
(*   payload, stage, candidates, context_blob, result                      *)
(*             one call of infer_project_path, unfolded in two steps       *)
(***************************************************************************)
VARIABLES dirs, disk, argv, pc, files, pos, scanned, updated, skipped, failed,
          status, stdout, before, prev, payload, stage, candidates, context_blob,
          result

vars == <<dirs, disk, argv, pc, files, pos, scanned, updated, skipped, failed,
          status, stdout, before, prev, payload, stage, candidates, context_blob,
          result>>

batchVars == <<disk, argv, pc, files, pos, scanned, updated, skipped, failed,
               status, stdout, before, prev>>

inferVars == <<payload, stage, candidates, context_blob, result>>

(***************************************************************************)
(* Path validator: is_abs_dir, normalize_path.                             *)
(***************************************************************************)
\* the components of a path string, split at "/"
RECURSIVE Components(_)
Components(p) ==
    LET cut == {i \in 1..Len(p) : p[i] = "/"}
    IN  IF cut = {} THEN <<p>>
        ELSE <<SubSeq(p, 1, SetMin(cut) - 1)>> \o Components(From(p, SetMin(cut)))

RECURSIVE PathOf(_)
PathOf(comps) ==
    IF Len(comps) = 0 THEN <<"/">>
    ELSE IF Len(comps) = 1 THEN <<"/">> \o comps[1]
    ELSE <<"/">> \o comps[1] \o PathOf(Tail(comps))

\* Walk the components from the root as the operating system does: "" and "."
\* stay, ".." steps up, a name steps into an existing directory.
RECURSIVE Resolve(_, _)
Resolve(comps, cur) ==
    IF Len(comps) = 0 THEN [ok |-> TRUE, at |-> cur]
    ELSE LET c == Head(comps)
         IN  IF c = <<>> \/ c = <<".">> THEN Resolve(Tail(comps), cur)
             ELSE IF c = <<".", ".">>
                  THEN Resolve(Tail(comps),
                               IF Len(cur) = 0 THEN cur ELSE SubSeq(cur, 1, Len(cur) - 1))
             ELSE IF PathOf(Append(cur, c)) \in dirs
                  THEN Resolve(Tail(comps), Append(cur, c))
             ELSE [ok |-> FALSE,
                   at |-> cur \o SelectSeq(comps, LAMBDA x : x # <<>> /\ x # <<".">>)]

Home == <<"/","h","o","m","e","/","u">>

\* Path.expanduser raises RuntimeError for "~name" when name is no known user;
\* the modelled system knows no user but the current one.
ExpandUserRaises(p) ==
    /\ Len(p) > 0
    /\ p[1] = "~"
    /\ Head(Components(p)) # <<"~">>

ExpandUser(p) ==
    IF Len(p) > 0 /\ p[1] = "~" /\ Head(Components(p)) = <<"~">>
    THEN Home \o From(p, 1)
    ELSE p

is_abs_dir(path_str) ==
    LET p == ExpandUser(path_str)
    IN  /\ StartsWith(p, <<"/">>)
        /\ Resolve(Components(p), <<>>).ok

normalize_path(path_str) ==
    PathOf(Resolve(Components(ExpandUser(path_str)), <<>>).at)

(***************************************************************************)
(* Candidate extractor.                                                    *)
(***************************************************************************)
\* re.findall(r"(/[^\s\"'<>]+)", text): leftmost non-overlapping matches, each a
\* "/" followed by the longest non-empty run of token characters.
RECURSIVE FindAllTokens(_, _)
FindAllTokens(text, i) ==
    IF i > Len(text) THEN <<>>
    ELSE IF text[i] = "/" /\ i < Len(text) /\ text[i + 1] \notin TokenDelims
    THEN LET stops == {j \in (i + 1)..Len(text) : text[j] \in TokenDelims}
             last  == IF stops = {} THEN Len(text) ELSE SetMin(stops) - 1
         IN  <<SubSeq(text, i, last)>> \o FindAllTokens(text, last + 1)
    ELSE FindAllTokens(text, i + 1)

RECURSIVE StripAndFilter(_)
StripAndFilter(tokens) ==
    IF Len(tokens) = 0 THEN <<>>
    ELSE LET c == RStripChars(Head(tokens), TrailingPunct)
         IN  IF StartsWith(c, <<"/", "/">>)
             THEN StripAndFilter(Tail(tokens))
             ELSE <<c>> \o StripAndFilter(Tail(tokens))

extract_absolute_paths(text) == StripAndFilter(FindAllTokens(text, 1))

(***************************************************************************)
(* JSON values as json.loads builds them.  A value is a record             *)
(* [k, t, s, items]: t is the Python type, s the characters of a str,      *)
(* items the entries of a list or the members of a dict (in key order),    *)
(* and k the key under which the value sits in its dict ("" elsewhere).    *)
(***************************************************************************)
Str(chars) == [k |-> "", t |-> "str", s |-> chars, items |-> <<>>]

Num == [k |-> "", t |-> "int", s |-> <<>>, items |-> <<>>]

List(entries) == [k |-> "", t |-> "list", s |-> <<>>, items |-> entries]

Dict(members) == [k |-> "", t |-> "dict", s |-> <<>>, items |-> members]

None == [k |-> "", t |-> "None", s |-> <<>>, items |-> <<>>]

Member(key, value) == [value EXCEPT !.k = key]

Keys(members) == {members[i].k : i \in 1..Len(members)}

\* dict.get(key) / dict.get(key, default)
GetOr(members, key, default) ==
    LET at == {i \in 1..Len(members) : members[i].k = key}
    IN  IF at = {} THEN default ELSE members[SetMin(at)]

Get(members, key) == GetOr(members, key, None)

\* d[key] = value: an existing key keeps its place, a new key goes last
Put(members, key, value) ==
    IF key \in Keys(members)
    THEN [i \in 1..Len(members) |->
             IF members[i].k = key THEN Member(key, value) ELSE members[i]]
    ELSE Append(members, Member(key, value))

(***************************************************************************)
(* Candidate scorer.                                                       *)
(***************************************************************************)
RECURSIVE MarkerScore(_, _, _)
MarkerScore(markers, path, context_text) ==
    IF Len(markers) = 0 THEN 0
    ELSE (IF Contains(context_text, Head(markers) \o <<" ">> \o path)
          THEN MARKER_BONUS ELSE 0)
         + MarkerScore(Tail(markers), path, context_text)

score_candidate(path, context_text) ==
    LET prior == LENGTH_PRIOR - (Len(path) \div LENGTH_STEP)
    IN    (IF is_abs_dir(path) THEN DIR_BONUS ELSE 0)
        + MarkerScore(PROJECT_ROOT_MARKERS, path, context_text)
        + (IF Contains(path, HomeNeedle) THEN HOME_BONUS ELSE 0)
        + (IF prior > 0 THEN prior ELSE 0)

(***************************************************************************)
(* infer_project_path.                                                     *)
(***************************************************************************)
NoPath == [some |-> FALSE, path |-> <<>>]

Some(p) == [some |-> TRUE, path |-> p]

\* lines 66-70: the title's contribution
TitleParts(pl) ==
    LET title == Get(pl, "title")
    IN  IF title.t = "str" THEN <<title.s>> ELSE <<>>

TitleCandidates(pl) ==
    LET title == Get(pl, "title")
    IN  IF title.t = "str" /\ StartsWith(title.s, <<"/">>)
        THEN <<Strip(title.s)>> ELSE <<>>

\* str.rfind in place of str.find: the last occurrence decides
MarkerCandidate_LastOccurrence(content, marker) ==
    LET hits == {i \in 1..(Len(content) - Len(marker) + 1) : MatchAt(content, marker, i)}
    IN  IF hits # {}
        THEN LET maybe == Strip(From(content, SetMax(hits) - 1 + Len(marker)))
             IN  IF StartsWith(maybe, <<"/">>)
                 THEN LET line == Strip(FirstLine(maybe))
                      IN  IF Len(line) > 0 THEN <<line>> ELSE <<>>
                 ELSE <<>>
        ELSE <<>>

\* lines 83-89 for one marker
MarkerCandidate(content, marker) ==
    LET idx == Find(content, marker)
    IN  IF idx >= 0
        THEN LET maybe == Strip(From(content, idx + Len(marker)))
             IN  IF StartsWith(maybe, <<"/">>)
                 THEN LET line == Strip(FirstLine(maybe))
                      IN  IF Len(line) > 0 THEN <<line>> ELSE <<>>
                 ELSE <<>>
        ELSE <<>>

\* lines 82-89: the loop over the markers
RECURSIVE MarkerCandidates(_, _)
MarkerCandidates(content, markers) ==
    IF Len(markers) = 0 THEN <<>>
    ELSE MarkerCandidate(content, Head(markers))
         \o MarkerCandidates(content, Tail(markers))

\* lines 82-90: what one textual content appends to the candidates
ContentCandidates(content) ==
    MarkerCandidates(content, PROJECT_ROOT_MARKERS) \o extract_absolute_paths(content)

\* lines 74-79: the turns that carry a textual content
TextOf(turn) ==
    IF turn.t = "dict" /\ Get(turn.items, "content").t = "str"
    THEN <<Get(turn.items, "content").s>> ELSE <<>>

RECURSIVE TurnTexts(_)
TurnTexts(turns) ==
    IF Len(turns) = 0 THEN <<>>
    ELSE TextOf(Head(turns)) \o TurnTexts(Tail(turns))

\* lines 72-73
Turns(pl) ==
    LET turns == GetOr(pl, "turns", List(<<>>))
    IN  IF turns.t = "list" THEN turns.items ELSE <<>>

RECURSIVE CandidatesOfTexts(_)
CandidatesOfTexts(texts) ==
    IF Len(texts) = 0 THEN <<>>
    ELSE ContentCandidates(Head(texts)) \o CandidatesOfTexts(Tail(texts))

\* lines 63-90
GatherCandidates(pl) == TitleCandidates(pl) \o CandidatesOfTexts(TurnTexts(Turns(pl)))

\* line 92
ContextBlob(pl) == JoinLines(TitleParts(pl) \o TurnTexts(Turns(pl)))

\* lines 97-102: first occurrence of each distinct candidate, with its score
RECURSIVE RankDistinct(_, _, _)
RankDistinct(cands, seen, blob) ==
    IF Len(cands) = 0 THEN <<>>
    ELSE LET c == Head(cands)
         IN  IF c \in seen THEN RankDistinct(Tail(cands), seen, blob)
             ELSE <<[score |-> score_candidate(c, blob), c |-> c]>>
                  \o RankDistinct(Tail(cands), seen \cup {c}, blob)

\* list.sort(key=score, reverse=True): stable, an entry goes after the entries
\* that score at least as much
\* an unstable descending sort: an entry goes before the entries it ties with
RECURSIVE InsertDesc_Unstable(_, _)
InsertDesc_Unstable(sorted, e) ==
    IF Len(sorted) = 0 THEN <<e>>
    ELSE IF Head(sorted).score > e.score
         THEN <<Head(sorted)>> \o InsertDesc_Unstable(Tail(sorted), e)
         ELSE <<e>> \o sorted

RECURSIVE InsertDesc(_, _)
InsertDesc(sorted, e) ==
    IF Len(sorted) = 0 THEN <<e>>
    ELSE IF Head(sorted).score >= e.score
         THEN <<Head(sorted)>> \o InsertDesc(Tail(sorted), e)
         ELSE <<e>> \o sorted

RECURSIVE SortDesc(_, _)
SortDesc(ranked, acc) ==
    IF Len(ranked) = 0 THEN acc
    ELSE SortDesc(Tail(ranked), InsertDesc(acc, Head(ranked)))

\* the final directory check (lines 108-109) left out
SelectBest_NoDirCheck(cands, blob) ==
    IF Len(cands) = 0 THEN NoPath
    ELSE LET ranked == SortDesc(RankDistinct(cands, {}, blob), <<>>)
             best   == ranked[1]
         IN  IF best.score < MIN_SCORE THEN NoPath
             ELSE Some(normalize_path(best.c))

\* lines 93-110
SelectBest(cands, blob) ==
    IF Len(cands) = 0 THEN NoPath
    ELSE LET ranked == SortDesc(RankDistinct(cands, {}, blob), <<>>)
             best   == ranked[1]
         IN  IF best.score < MIN_SCORE THEN NoPath
             ELSE IF ~is_abs_dir(best.c) THEN NoPath
             ELSE Some(normalize_path(best.c))

infer_project_path(pl) ==
    LET existing == Get(pl, "project_path")
    IN  IF existing.t = "str" /\ is_abs_dir(existing.s)
        THEN Some(normalize_path(existing.s))
        ELSE SelectBest(GatherCandidates(pl), ContextBlob(pl))

(***************************************************************************)
(* Files.  A file is [kind, members, compact, writable]:                   *)
(*   kind      "object"  the bytes are a JSON object with these members    *)
(*             "array"   valid JSON that is no object                      *)
(*             "garbage" not JSON                                          *)
(*             "empty"   zero bytes                                        *)
(*   members   the members as written, duplicate keys included             *)
(*   compact   the bytes are json.dumps(separators=(",", ":")) + "\n"      *)
(*   writable  open(path, "w") is permitted                                *)
(***************************************************************************)
\* a lone surrogate: json.loads accepts "\ud800", the utf-8 codec refuses it
Surrogate == "\\ud800"

\* json.loads of an object: a repeated key keeps its first place and last value
RECURSIVE LoadMembers(_, _)
LoadMembers(written, acc) ==
    IF Len(written) = 0 THEN acc
    ELSE LoadMembers(Tail(written), Put(acc, Head(written).k, Head(written)))

\* whether text.encode("utf-8") succeeds for the dumped payload
RECURSIVE HasSurrogate(_)
HasSurrogate(value) ==
    \/ \E j \in 1..Len(value.s) : value.s[j] = Surrogate
    \/ \E e \in 1..Len(value.items) : HasSurrogate(value.items[e])

Encodable(pl) == \A i \in 1..Len(pl) : ~HasSurrogate(pl[i])

\* lines 133-134: json.dumps + Path.write_text.  write_text opens the file for
\* writing, which truncates it, and only then encodes and writes the text.
WriteText(file, pl) ==
    IF ~file.writable
    THEN [raised |-> TRUE, file |-> file]
    ELSE IF ~Encodable(pl)
    THEN [raised |-> TRUE,
          file |-> [kind |-> "empty", members |-> <<>>, compact |-> FALSE,
                    writable |-> TRUE]]
    ELSE [raised |-> FALSE,
          file |-> [kind |-> "object", members |-> pl, compact |-> TRUE,
                    writable |-> TRUE]]

Outcome(st, inferred, file, printed, raised) ==
    [status |-> st, inferred |-> inferred, file |-> file, printed |-> printed,
     raised |-> raised]

(***************************************************************************)
(* Record processor: process_file.  raised = an exception leaves the       *)
(* function (is_abs_dir at line 123 is outside every try block).           *)
(***************************************************************************)
\* the assignment of line 130 left out: the record is written back unchanged
PersistInferred_NoAssign(file, pl, inferred, write, verbose) ==
    LET w == IF write THEN WriteText(file, pl) ELSE [raised |-> FALSE, file |-> file]
    IN  IF w.raised
        THEN Outcome("failed", NoPath, w.file, FALSE, FALSE)
        ELSE Outcome("updated", inferred, w.file, verbose, FALSE)

\* a fresh record holding only project_path is written
PersistInferred_OnlyPath(file, pl, inferred, write, verbose) ==
    LET pl2 == <<Member("project_path", Str(inferred.path))>>
        w   == IF write THEN WriteText(file, pl2) ELSE [raised |-> FALSE, file |-> file]
    IN  IF w.raised
        THEN Outcome("failed", NoPath, w.file, FALSE, FALSE)
        ELSE Outcome("updated", inferred, w.file, verbose, FALSE)

\* the write flag ignored: the record is written in dry-run mode too
PersistInferred_AlwaysWrite(file, pl, inferred, write, verbose) ==
    LET pl2 == Put(pl, "project_path", Str(inferred.path))
        w   == WriteText(file, pl2)
    IN  IF w.raised
        THEN Outcome("failed", NoPath, w.file, FALSE, FALSE)
        ELSE Outcome("updated", inferred, w.file, verbose, FALSE)

PersistInferred(file, pl, inferred, write, verbose) ==
    LET pl2 == Put(pl, "project_path", Str(inferred.path))
        w   == IF write THEN WriteText(file, pl2) ELSE [raised |-> FALSE, file |-> file]
    IN  IF w.raised
        THEN Outcome("failed", NoPath, w.file, FALSE, FALSE)
        ELSE Outcome("updated", inferred, w.file, verbose, FALSE)

\* the early return of lines 122-124 left out
process_file_NoEarlySkip(file, write, verbose) ==
    IF file.kind # "object"
    THEN Outcome("failed", NoPath, file, FALSE, FALSE)
    ELSE LET pl       == LoadMembers(file.members, <<>>)
             inferred == infer_project_path(pl)
         IN  IF ~inferred.some \/ Len(inferred.path) = 0
             THEN Outcome("skipped", NoPath, file, FALSE, FALSE)
             ELSE PersistInferred(file, pl, inferred, write, verbose)

process_file(file, write, verbose) ==
    IF file.kind # "object"
    THEN Outcome("failed", NoPath, file, FALSE, FALSE)
    ELSE LET pl       == LoadMembers(file.members, <<>>)
             existing == Get(pl, "project_path")
         IN  IF existing.t = "str" /\ ExpandUserRaises(existing.s)
             THEN Outcome("raised", NoPath, file, FALSE, TRUE)
             ELSE IF existing.t = "str" /\ is_abs_dir(existing.s)
             THEN Outcome("skipped", Some(normalize_path(existing.s)), file, FALSE, FALSE)
             ELSE LET inferred == infer_project_path(pl)
                  IN  IF ~inferred.some \/ Len(inferred.path) = 0
                      THEN Outcome("skipped", NoPath, file, FALSE, FALSE)
                      ELSE PersistInferred(file, pl, inferred, write, verbose)

(***************************************************************************)
(* Batch driver: main.                                                     *)
(***************************************************************************)
\* a file name is [prefix, stem], standing for <prefix><stem>.json
Name(prefix, stem) == [prefix |-> prefix, stem |-> stem]

\* config_dir.glob("context-*.json")
Glob(d) == {n \in DOMAIN d : n.prefix = "context-"}

\* sorted(...)
RECURSIVE Sorted(_)
Sorted(names) ==
    IF names = {} THEN <<>>
    ELSE LET first == CHOOSE n \in names : \A m \in names : n.stem <= m.stem
         IN  <<first>> \o Sorted(names \ {first})

NoReport == [ran |-> FALSE]

Report(crashed, exit) ==
    [ran |-> TRUE, argv |-> argv, crashed |-> crashed, files |-> files,
     status |-> status', stdout |-> stdout', exit |-> exit,
     scanned |-> scanned', updated |-> updated', skipped |-> skipped',
     failed |-> failed']

\* lines 143-159
Start ==
    /\ pc = "idle"
    /\ stage = "off"
    /\ \E w \in BOOLEAN, v \in BOOLEAN : argv' = [write |-> w, verbose |-> v]
    /\ files' = Sorted(Glob(disk))
    /\ pos' = 1
    /\ scanned' = 0 /\ updated' = 0 /\ skipped' = 0 /\ failed' = 0
    /\ status' = <<>>
    /\ stdout' = <<>>
    /\ before' = disk
    /\ pc' = "loop"
    /\ UNCHANGED <<dirs, disk, prev>>
    /\ UNCHANGED inferVars

\* lines 161-169: one iteration of the loop; an exception ends the process
ProcessNext ==
    /\ pc = "loop"
    /\ pos <= Len(files)
    /\ LET f == files[pos]
           r == process_file(disk[f], argv.write, argv.verbose)
       IN  /\ scanned' = scanned + 1
           /\ disk' = [disk EXCEPT ![f] = r.file]
           /\ status' = Append(status, [name |-> f, status |-> r.status])
           /\ stdout' = IF r.printed
                        THEN Append(stdout, [line |-> "path", name |-> f,
                                             path |-> r.inferred.path])
                        ELSE stdout
           /\ updated' = IF r.status = "updated" THEN updated + 1 ELSE updated
           /\ skipped' = IF r.status = "skipped" THEN skipped + 1 ELSE skipped
           /\ failed'  = IF ~r.raised /\ r.status \notin {"updated", "skipped"}
                         THEN failed + 1 ELSE failed
           /\ IF r.raised
              THEN /\ pc' = "idle"
                   /\ prev' = Report(TRUE, 1)
                   /\ pos' = pos
              ELSE /\ pc' = "loop"
                   /\ pos' = pos + 1
                   /\ prev' = prev
    /\ UNCHANGED <<dirs, argv, files, before>>
    /\ UNCHANGED inferVars

\* lines 171-173
Finish ==
    /\ pc = "loop"
    /\ pos > Len(files)
    /\ stdout' = Append(stdout, [line |-> "summary",
                                 mode |-> IF argv.write THEN "write" ELSE "dry-run",
                                 scanned |-> scanned, updated |-> updated,
                                 skipped |-> skipped, failed |-> failed])
    /\ pc' = "idle"
    /\ UNCHANGED <<dirs, disk, argv, files, pos, scanned, updated, skipped, failed,
                   status, before>>
    /\ prev' = Report(FALSE, IF failed = 0 THEN 0 ELSE 1)
    /\ UNCHANGED inferVars

Next == Start \/ ProcessNext \/ Finish

(***************************************************************************)
(* The environment the sweep is run in: directory trees and record files.  *)
(***************************************************************************)
MaxFiles == 2

P_ROOT == <<"/">>

P_WORK == <<"/","w","o","r","k">>

P_PROJ == P_WORK \o <<"/","p","r","o","j">>

P_DATA == <<"/","d","a","t","a">>

P_GONE == <<"/","g","o","n","e">>

P_HOME == <<"/","h","o","m","e">>

DirChoices ==
    { {P_ROOT, P_WORK, P_PROJ, P_DATA, P_HOME, Home},
      {P_ROOT, P_WORK, P_PROJ} }

Pretty(members) ==
    [kind |-> "object", members |-> members, compact |-> FALSE, writable |-> TRUE]

Turn(content) == Dict(<<Member("role", Str(<<"u">>)), Member("content", Str(content))>>)

\* the bytes `not json`
F_garbage == [kind |-> "garbage", members |-> <<>>, compact |-> FALSE, writable |-> TRUE]

\* {"title": 1, "turns": "u"}: nothing textual
F_noEvidence == Pretty(<<Member("title", Num), Member("turns", Str(<<"u">>))>>)

\* a record that is already resolved, whose text names other directories
F_resolved ==
    Pretty(<<Member("project_path", Str(P_WORK \o <<"/">>)),
             Member("title", Str(P_DATA)),
             Member("turns", List(<<Turn(MARKER_ACTIVE \o <<" ">> \o P_PROJ)>>))>>)

\* {"title": "/gone", "model": 1, "title": "/work/"}: a key written twice
F_title ==
    Pretty(<<Member("title", Str(P_GONE)), Member("model", Num),
             Member("title", Str(P_WORK \o <<"/">>))>>)

\* a project_path that no longer exists, and turns of several shapes
F_stale ==
    Pretty(<<Member("model", Num),
             Member("project_path", Str(P_GONE)),
             Member("turns", List(<<Num, Dict(<<Member("role", Str(<<"u">>))>>),
                                    Dict(<<Member("content", Num)>>),
                                    Turn(<<"s","e","e"," ">> \o P_DATA \o <<".">>)>>))>>)

\* {"project_path": "~nouser", "title": "/work"}
F_tilde ==
    Pretty(<<Member("project_path", Str(<<"~","n","o","u","s","e","r">>)),
             Member("title", Str(P_WORK))>>)

\* {"title": "/work", "note": "\ud800"}
F_surrogate ==
    Pretty(<<Member("title", Str(P_WORK)), Member("note", Str(<<Surrogate>>))>>)

\* a resolvable record in a file the user may not write
F_readOnly ==
    [kind |-> "object", members |-> <<Member("title", Str(P_PROJ))>>,
     compact |-> FALSE, writable |-> FALSE]

FileChoices ==
    {F_garbage, F_noEvidence, F_resolved, F_title, F_stale, F_tilde, F_surrogate,
     F_readOnly}

\* a file of the directory that the glob does not match
Other == Name("notes-", 0)

InferOff ==
    /\ payload = <<>>
    /\ stage = "off"
    /\ candidates = <<>>
    /\ context_blob = <<>>
    /\ result = NoPath

Init ==
    /\ dirs \in DirChoices
    /\ \E n \in 0..MaxFiles :
         \E content \in [1..n -> FileChoices] :
            disk = [f \in {Other} \cup {Name("context-", i) : i \in 1..n} |->
                       IF f = Other THEN F_garbage ELSE content[f.stem]]
    /\ argv = [write |-> FALSE, verbose |-> FALSE]
    /\ pc = "idle"
    /\ files = <<>>
    /\ pos = 1
    /\ scanned = 0 /\ updated = 0 /\ skipped = 0 /\ failed = 0
    /\ status = <<>>
    /\ stdout = <<>>
    /\ before = disk
    /\ prev = NoReport
    /\ InferOff

Spec == Init /\ [][Next]_vars

(***************************************************************************)
(* infer_project_path on its own, unfolded in two steps: the scan that     *)
(* builds the candidate list and the context blob, then the ranking.       *)
(* The records are the ones process_file passes on: no valid project_path. *)
(***************************************************************************)
MaxClauses == 2

Leads ==
    { <<>>,
      MARKER_ACTIVE \o <<" ">>,
      MARKER_ACTIVE \o <<"\n">>,
      MARKER_SET \o <<" ">> }

\* "/work", "/work/proj", "/data/, now"
Objects ==
    { P_WORK,
      P_PROJ,
      P_DATA \o <<"/", ",", " ", "n", "o", "w">> }

Clauses == {lead \o object : lead \in Leads, object \in Objects}

\* A clause starts a new turn or continues the last turn on a new line.
Glues == {"turn", "line"}

RECURSIVE Contents(_, _, _)
Contents(texts, glue, acc) ==
    IF Len(texts) = 0 THEN acc
    ELSE IF Len(acc) = 0 \/ Head(glue) = "turn"
    THEN Contents(Tail(texts), Tail(glue), Append(acc, Head(texts)))
    ELSE Contents(Tail(texts), Tail(glue),
                  [acc EXCEPT ![Len(acc)] = @ \o <<"\n">> \o Head(texts)])

TurnsOf(contents) == [i \in 1..Len(contents) |-> Turn(contents[i])]

TitleChoices == {None, Str(P_DATA)}

RecordOf(title, contents) ==
    (IF title.t = "str" THEN <<Member("title", title)>> ELSE <<>>)
    \o <<Member("turns", List(TurnsOf(contents)))>>

InitInfer ==
    /\ dirs \in DirChoices
    /\ \E n \in 0..MaxClauses :
         \E texts \in [1..n -> Clauses], glue \in [1..n -> Glues], title \in TitleChoices :
            /\ n > 0 => glue[1] = "turn"
            /\ payload = RecordOf(title, Contents(texts, glue, <<>>))
    /\ stage = "called"
    /\ candidates = <<>>
    /\ context_blob = <<>>
    /\ result = NoPath
    /\ disk = [f \in {Other} |-> F_garbage]
    /\ argv = [write |-> FALSE, verbose |-> FALSE]
    /\ pc = "idle"
    /\ files = <<>>
    /\ pos = 1
    /\ scanned = 0 /\ updated = 0 /\ skipped = 0 /\ failed = 0
    /\ status = <<>>
    /\ stdout = <<>>
    /\ before = disk
    /\ prev = NoReport

\* lines 59-92
Gather ==
    /\ stage = "called"
    /\ LET existing == Get(payload, "project_path")
       IN  IF existing.t = "str" /\ is_abs_dir(existing.s)
           THEN /\ result' = Some(normalize_path(existing.s))
                /\ stage' = "returned"
                /\ UNCHANGED <<candidates, context_blob>>
           ELSE /\ candidates' = GatherCandidates(payload)
                /\ context_blob' = ContextBlob(payload)
                /\ stage' = "gathered"
                /\ UNCHANGED result
    /\ UNCHANGED <<dirs, payload>>
    /\ UNCHANGED batchVars

\* lines 93-110
Select ==
    /\ stage = "gathered"
    /\ result' = SelectBest(candidates, context_blob)
    /\ stage' = "returned"
    /\ UNCHANGED <<dirs, payload, candidates, context_blob>>
    /\ UNCHANGED batchVars

NextInfer == Gather \/ Select

SpecInfer == InitInfer /\ [][NextInfer]_vars

(***************************************************************************)
(* Properties of the inference (checked under SpecInfer).                  *)
(***************************************************************************)
Range(seq) == {seq[i] : i \in 1..Len(seq)}

Texts == TurnTexts(Turns(payload))

\* the path-shaped tokens of a text with the offset at which each starts
RECURSIVE TokenSpans(_, _)
TokenSpans(text, i) ==
    IF i > Len(text) THEN {}
    ELSE IF text[i] = "/" /\ i < Len(text) /\ text[i + 1] \notin TokenDelims
    THEN LET stops == {j \in (i + 1)..Len(text) : text[j] \in TokenDelims}
             last  == IF stops = {} THEN Len(text) ELSE SetMin(stops) - 1
             tok   == RStripChars(SubSeq(text, i, last), TrailingPunct)
         IN  (IF StartsWith(tok, <<"/", "/">>) THEN {} ELSE {[at |-> i, tok |-> tok]})
             \cup TokenSpans(text, last + 1)
    ELSE TokenSpans(text, i + 1)

\* the token starting at offset `at` directly follows "<marker> "
FollowsMarker(text, at, marker) ==
    /\ at > Len(marker) + 1
    /\ MatchAt(text, marker \o <<" ">>, at - Len(marker) - 1)

Markers == Range(PROJECT_ROOT_MARKERS)

\* paths declared by "<marker> <path>" in some turn
DeclaredBy(marker) ==
    UNION {{sp.tok : sp \in {x \in TokenSpans(t, 1) : FollowsMarker(t, x.at, marker)}}
           : t \in Range(Texts)}

Declared == UNION {DeclaredBy(m) : m \in Markers}

\* path-shaped tokens that no marker phrase precedes
BareTokens ==
    UNION {{sp.tok : sp \in {x \in TokenSpans(t, 1) :
                                \A m \in Markers : ~FollowsMarker(t, x.at, m)}}
           : t \in Range(Texts)}

\* C5: when a turn declares "Active project root: P" for an existing directory P
\* (the only declared path of the record) and a bare path-shaped token B # P
\* occurs as well, the inference resolves to the normalized P.
C5_MarkerPrecedence ==
    stage = "returned" =>
        \A P \in DeclaredBy(MARKER_ACTIVE) :
            ( /\ Declared = {P}
              /\ is_abs_dir(P)
              /\ \E B \in BareTokens : B # P )
            => result = Some(normalize_path(P))

Occurrences(text, marker) ==
    {i \in 1..(Len(text) - Len(marker) + 1) : MatchAt(text, marker, i)}

\* the text after the occurrence at offset i up to the next line break, trimmed,
\* kept when it is non-empty and begins with "/"
LineAfter(text, marker, i) ==
    LET line == Strip(FirstLine(SubSeq(text, i + Len(marker), Len(text))))
    IN  IF Len(line) > 0 /\ line[1] = "/" THEN {line} ELSE {}

\* C9 as stated: every occurrence of every marker contributes the rest of its
\* own line, and nothing else is marker-derived.
C9_EveryOccurrence ==
    stage = "gathered" =>
        \A t \in Range(Texts) :
            Range(MarkerCandidates(t, PROJECT_ROOT_MARKERS))
                = UNION {UNION {LineAfter(t, m, i) : i \in Occurrences(t, m)} : m \in Markers}

\* what the first occurrence of the marker contributes: the first line of the
\* text that follows it once the whitespace after the marker, line breaks
\* included, is skipped, provided that text begins with "/"
FirstOccurrenceLine(text, marker) ==
    LET occ == Occurrences(text, marker)
    IN  IF occ = {} THEN <<>>
        ELSE LET body == {j \in (SetMin(occ) + Len(marker))..Len(text) :
                             text[j] \notin Whitespace}
             IN  IF body = {} THEN <<>>
                 ELSE IF text[SetMin(body)] # "/" THEN <<>>
                 ELSE LET b    == SetMin(body)
                          brk  == {j \in b..Len(text) : text[j] \in LineBreaks}
                          stop == IF brk = {} THEN Len(text) ELSE SetMin(brk) - 1
                          e    == SetMax({j \in b..stop : text[j] \notin Whitespace})
                      IN  <<SubSeq(text, b, e)>>

\* C9 (amended): per turn content and marker, only the first occurrence of the
\* marker contributes, and what it contributes is the first line of the text
\* following it after all leading whitespace (line breaks included) is skipped,
\* if that text begins with "/"; the contributions are in the candidate list.
C9_FirstOccurrenceOnly ==
    stage = "gathered" =>
        \A t \in Range(Texts) :
            /\ MarkerCandidates(t, PROJECT_ROOT_MARKERS)
                   = FirstOccurrenceLine(t, MARKER_ACTIVE) \o FirstOccurrenceLine(t, MARKER_SET)
            /\ Range(FirstOccurrenceLine(t, MARKER_ACTIVE)) \subseteq Range(candidates)
            /\ Range(FirstOccurrenceLine(t, MARKER_SET)) \subseteq Range(candidates)

\* a content in which a marker occurs twice and the line after its second
\* occurrence is path-shaped, yet is no marker-derived candidate
C9_Witness ==
    /\ stage = "gathered"
    /\ \E t \in Range(Texts), m \in Markers :
          \E i \in Occurrences(t, m) :
             /\ i # SetMin(Occurrences(t, m))
             /\ LineAfter(t, m, i) # {}
             /\ LineAfter(t, m, i) \cap Range(MarkerCandidates(t, PROJECT_ROOT_MARKERS)) = {}
             /\ LineAfter(t, m, i) \cap Range(candidates) = {}

\* the candidate list in encounter order: the title, then turn by turn the
\* marker-derived candidates followed by the path-shaped tokens
RECURSIVE InEncounterOrder(_)
InEncounterOrder(texts) ==
    IF Len(texts) = 0 THEN <<>>
    ELSE MarkerCandidates(Head(texts), PROJECT_ROOT_MARKERS)
         \o extract_absolute_paths(Head(texts))
         \o InEncounterOrder(Tail(texts))

\* indices of the first occurrence of each distinct candidate
Firsts == {i \in 1..Len(candidates) : \A j \in 1..(i - 1) : candidates[j] # candidates[i]}

\* the distinct candidates, each with its index and its score
Scored ==
    {[i |-> i, c |-> candidates[i],
      score |-> score_candidate(candidates[i], context_blob)] : i \in Firsts}

\* the first-encountered candidate among those with the highest score
WinnerOf(scored) ==
    CHOOSE w \in scored :
        \A r \in scored : r.score <= w.score /\ (r.i < w.i => r.score < w.score)

\* C10: candidates are taken in encounter order and deduplicated by equality;
\* among the distinct candidates with the highest score the first encountered
\* is the one selected, and it alone decides the result.
C10_FirstEncounteredWins ==
    stage = "returned" =>
        /\ candidates = TitleCandidates(payload) \o InEncounterOrder(Texts)
        /\ candidates = <<>> => result = NoPath
        /\ candidates # <<>> =>
              LET w == WinnerOf(Scored)
              IN  result = IF w.score >= MIN_SCORE /\ is_abs_dir(w.c)
                           THEN Some(normalize_path(w.c))
                           ELSE NoPath

\* two distinct candidates, naming different directories, tie for the highest score
C10_Witness ==
    /\ stage = "returned"
    /\ result.some
    /\ LET w == WinnerOf(Scored)
       IN  \E r \in Scored :
              /\ r.i > w.i
              /\ r.score = w.score
              /\ is_abs_dir(r.c)
              /\ normalize_path(r.c) # result.path

(***************************************************************************)
(* Properties of the sweep (checked under Spec).                           *)
(***************************************************************************)
\* the record a file held when this invocation started
RecordBefore(f) == LoadMembers(before[f].members, <<>>)

HadValidPath(f) ==
    /\ before[f].kind = "object"
    /\ Get(RecordBefore(f), "project_path").t = "str"
    /\ ~ExpandUserRaises(Get(RecordBefore(f), "project_path").s)
    /\ is_abs_dir(Get(RecordBefore(f), "project_path").s)

\* the file held a record without a valid project_path from which a path is inferred
Inferable(f) ==
    /\ before[f].kind = "object"
    /\ Get(RecordBefore(f), "project_path").t = "str"
           => ~ExpandUserRaises(Get(RecordBefore(f), "project_path").s)
    /\ ~HadValidPath(f)
    /\ infer_project_path(RecordBefore(f)).some

PrevWasWrite == prev.ran /\ prev.argv.write

\* C1: during and at the end of a write-mode invocation that follows a
\* write-mode invocation, no file differs from what the first run left, no
\* record is counted as updated, and each record the first run reported as
\* updated is reported as skipped.
C1_Idempotence ==
    (pc = "loop" /\ argv.write /\ PrevWasWrite) =>
        /\ disk = before
        /\ updated = 0
        /\ \A i \in 1..Len(status) :
              /\ i <= Len(prev.status)
              /\ prev.status[i].name = status[i].name
              /\ prev.status[i].status = "updated" => status[i].status = "skipped"

\* the second write run has gone through every file, and the first had updated some
C1_Witness ==
    /\ pc = "loop" /\ argv.write /\ PrevWasWrite
    /\ pos > Len(files)
    /\ prev.updated > 0
    /\ skipped >= prev.updated

\* C2: a record whose project_path is an existing absolute directory is
\* skipped and its file is left as it was, in write and dry-run mode alike.
C2_ExistingIsAuthoritative ==
    \A i \in 1..Len(status) :
        HadValidPath(status[i].name) =>
            /\ status[i].status = "skipped"
            /\ disk[status[i].name] = before[status[i].name]
            /\ Get(LoadMembers(disk[status[i].name].members, <<>>), "project_path")
                   = Get(RecordBefore(status[i].name), "project_path")

\* a resolved record whose title and turns name other existing directories has
\* been processed in write mode
C2_Witness ==
    /\ argv.write
    /\ \E i \in 1..Len(status) :
          /\ HadValidPath(status[i].name)
          /\ infer_project_path(
                 SelectSeq(RecordBefore(status[i].name),
                           LAMBDA m : m.k # "project_path")).some
          /\ infer_project_path(
                 SelectSeq(RecordBefore(status[i].name),
                           LAMBDA m : m.k # "project_path")).path
                 # normalize_path(Get(RecordBefore(status[i].name), "project_path").s)

\* C3: without the write flag no file changes, whatever is reported; a record
\* whose path is inferred is still reported as updated.
C3_DryRunPurity ==
    ~argv.write =>
        /\ disk = before
        /\ \A i \in 1..Len(status) :
              Inferable(status[i].name) => status[i].status = "updated"

\* a dry run that reported an update and a failure has finished
C3_Witness ==
    /\ ~argv.write
    /\ pc = "idle" /\ prev.ran /\ ~prev.crashed
    /\ prev.updated > 0
    /\ prev.failed > 0

\* C4: when persisting an inferred path fails, the disposition is failed and
\* the file on disk is exactly what it was before the attempt.
C4_WriteErrorAtomicity ==
    argv.write =>
        \A i \in 1..Len(status) :
            (Inferable(status[i].name) /\ status[i].status # "updated") =>
                /\ status[i].status = "failed"
                /\ disk[status[i].name] = before[status[i].name]

\* C7: an invocation never ends early: it goes through all matching files in
\* sorted order, gives each exactly one disposition, prints one summary line
\* and exits with 0 exactly when nothing failed.
C7_BestEffortSweep ==
    prev.ran =>
        /\ ~prev.crashed
        /\ prev.files = Sorted(Glob(disk))
        /\ [i \in 1..Len(prev.status) |-> prev.status[i].name] = prev.files
        /\ \A i \in 1..Len(prev.status) :
              prev.status[i].status \in {"updated", "skipped", "failed"}
        /\ prev.scanned = Len(prev.files)
        /\ prev.scanned = prev.updated + prev.skipped + prev.failed
        /\ Cardinality({i \in 1..Len(prev.stdout) : prev.stdout[i].line = "summary"}) = 1
        /\ (prev.exit = 0) <=> (prev.failed = 0)

\* C8: the record written for an update has the keys of the original record
\* plus project_path, each once, and every other field keeps its value.
C8_FieldPreservation ==
    argv.write =>
        \A i \in 1..Len(status) :
            status[i].status = "updated" =>
                LET f   == status[i].name
                    old == RecordBefore(f)
                    new == disk[f].members
                IN  /\ disk[f].kind = "object"
                    /\ Keys(new) = Keys(old) \cup {"project_path"}
                    /\ Len(new) = Cardinality(Keys(new))
                    /\ \A m \in 1..Len(new) :
                          new[m].k # "project_path" => new[m] = Get(old, new[m].k)
                    /\ Get(new, "project_path").t = "str"
                    /\ is_abs_dir(Get(new, "project_path").s)

\* a record that carried a project_path naming no directory, and other fields,
\* has been rewritten
C8_Witness ==
    /\ argv.write
    /\ \E i \in 1..Len(status) :
          /\ status[i].status = "updated"
          /\ Get(RecordBefore(status[i].name), "project_path").t = "str"
          /\ Cardinality(Keys(RecordBefore(status[i].name))) > 2
          /\ disk[status[i].name] # before[status[i].name]

=============================================================================
